---- MODULE Spec2Model ----
(***************************************************************************)
(* Model of pinata-upload.py: a script that reads two credentials from the *)
(* process environment, reads the version from package.json, opens four    *)
(* build artifacts, sends them in one multipart POST to the pinning        *)
(* service and prints the outcome.  Each statement of the script is one    *)
(* action; the environment, the file system and the network's answer are   *)
(* inputs drawn from small sets.                                           *)
(***************************************************************************)
EXTENDS Integers, Sequences, FiniteSets, TLC

VARIABLES
    environ,        \* os.environ: a function whose domain is the set variables
    manifest,       \* what package.json is on disk
    present,        \* the artifact paths that can be opened
    pc,             \* the statement the script is about to run
    PINATA_API_KEY, \* module global, line 5
    PINATA_SECRET_API_KEY, \* module global, line 6
    VERSION,        \* module global, line 7
    manifestOpened, \* package.json has been opened by line 7
    pending,        \* tuples of the list display of lines 9-14 built so far
    files,          \* module global, lines 9-14
    handles,        \* artifact paths whose file object is open
    out,            \* lines printed on stdout
    posts,          \* requests handed to requests.post
    r,              \* module global, line 17: the response
    trace,          \* the side effects of the run, in the order they happened
    runNo,          \* which invocation of the script this is
    builds          \* what earlier invocations built, and with which key and outcome

vars == <<environ, manifest, present, pc, PINATA_API_KEY, PINATA_SECRET_API_KEY,
          VERSION, manifestOpened, pending, files, handles, out, posts, r,
          trace, runNo, builds>>

----------------------------------------------------------------------------
(* Bounds and input sets *)

MaxRuns == 2

EnvNames == {"PINATA_API_KEY", "PINATA_SECRET_API_KEY"}

KeyValues == {"k1", "k2"}

SecretValues == {"s1"}

\* every environment that sets some of the two variables
Environs ==
    {e \in UNION {[d -> KeyValues \cup SecretValues] : d \in SUBSET EnvNames} :
        /\ "PINATA_API_KEY" \in DOMAIN e => e["PINATA_API_KEY"] \in KeyValues
        /\ "PINATA_SECRET_API_KEY" \in DOMAIN e =>
              e["PINATA_SECRET_API_KEY"] \in SecretValues}

Unset == [type |-> "unset", val |-> ""]

JsonValues == {[type |-> "str", val |-> "1.2.3"],
               [type |-> "str", val |-> "2.0.0"],
               [type |-> "null", val |-> ""]}

Manifests ==
    {[kind |-> k, version |-> Unset] :
        k \in {"missing", "notjson", "notobject", "noversion"}}
    \cup {[kind |-> "ok", version |-> v] : v \in JsonValues}

Statuses == {200, 201, 500}

Bodies == {"{\"IpfsHash\": \"Qm1\"}", "{\"error\": \"bad\"}",
           "<html>Bad Gateway</html>"}

NoResponse == [status |-> 0, body |-> ""]

Responses == [status : Statuses, body : Bodies]

----------------------------------------------------------------------------
(* Pure parts of the script *)

\* str() of a decoded JSON value, as an f-string field formats it
FormatValue(v) == IF v.type = "str" THEN v.val ELSE "None"

Dest == <<"cactus.js", "cactus.js.map", "style.css", "style.css.map">>

Src == <<"dist/cactus.js", "dist/cactus.js.map", "dist/style.css",
         "dist/style.js.map">>

Ctype == <<"text/javascript", "application/json", "text/css",
           "application/json">>

ArtifactPaths == {Src[k] : k \in 1..4}

\* the working directory holds all four artifacts, all but one, or none
Dists == {ArtifactPaths, {}} \cup {ArtifactPaths \ {p} : p \in ArtifactPaths}

\* faulty variant: the part is named after the file it is read from
UploadItemFromSource(v, k) ==
    [field |-> "file",
     name  |-> FormatValue(v) \o "/" \o
               (IF k = 4 THEN "style.js.map" ELSE Dest[k]),
     src   |-> Src[k],
     ctype |-> Ctype[k]]

\* faulty variant: the part name depends on the credential
UploadItemKeyed(v, k) ==
    [field |-> "file",
     name  |-> PINATA_API_KEY \o "/" \o FormatValue(v) \o "/" \o Dest[k],
     src   |-> Src[k],
     ctype |-> Ctype[k]]

\* the k-th tuple of the list display
UploadItem(v, k) ==
    [field |-> "file",
     name  |-> FormatValue(v) \o "/" \o Dest[k],
     src   |-> Src[k],
     ctype |-> Ctype[k]]

\* Response.json(): the decoded body, or a decode error
JsonLoads(body) ==
    IF body = "{\"IpfsHash\": \"Qm1\"}"
    THEN [err |-> FALSE, obj |-> <<"IpfsHash", "Qm1">>]
    ELSE IF body = "{\"error\": \"bad\"}"
    THEN [err |-> FALSE, obj |-> <<"error", "bad">>]
    ELSE [err |-> TRUE, obj |-> <<"", "">>]

\* what print() writes for a decoded one-key object
PyRepr(obj) == "{'" \o obj[1] \o "': '" \o obj[2] \o "'}"

\* the part names and content-types of a built list
PartsOf(fs) == [i \in 1..Len(fs) |-> <<fs[i].name, fs[i].ctype>>]

UploadingLine(v, fs) ==
    "Uploading " \o FormatValue(v) \o ": " \o ToString(Len(fs)) \o " files..."

OutcomeLine(status) ==
    IF status = 200 THEN "Success!" ELSE "Error: " \o ToString(status)

Endpoint == "https://api.pinata.cloud/pinning/pinFileToIPFS"

----------------------------------------------------------------------------
(* The state at interpreter start *)

Init ==
    /\ environ \in Environs
    /\ manifest \in Manifests
    /\ present \in Dists
    /\ pc = "L5"
    /\ PINATA_API_KEY = ""
    /\ PINATA_SECRET_API_KEY = ""
    /\ VERSION = Unset
    /\ manifestOpened = FALSE
    /\ pending = <<>>
    /\ files = <<>>
    /\ handles = {}
    /\ out = <<>>
    /\ posts = <<>>
    /\ r = NoResponse
    /\ trace = <<>>
    /\ runNo = 1
    /\ builds = {}

----------------------------------------------------------------------------
(* The statements *)

\* line 5
ReadApiKey ==
    /\ pc = "L5"
    /\ IF "PINATA_API_KEY" \in DOMAIN environ
       THEN /\ PINATA_API_KEY' = environ["PINATA_API_KEY"]
            /\ trace' = Append(trace, "env:PINATA_API_KEY")
            /\ pc' = "L6"
       ELSE /\ pc' = "raised"
            /\ UNCHANGED <<PINATA_API_KEY, trace>>
    /\ UNCHANGED <<environ, manifest, present, PINATA_SECRET_API_KEY, VERSION,
                   manifestOpened, pending, files, handles, out, posts, r,
                   runNo, builds>>

\* faulty variant: os.environ.get, an absent secret becomes a default
ReadSecretKeyDefault ==
    /\ pc = "L6"
    /\ PINATA_SECRET_API_KEY' =
          (IF "PINATA_SECRET_API_KEY" \in DOMAIN environ
           THEN environ["PINATA_SECRET_API_KEY"] ELSE "")
    /\ trace' = Append(trace, "env:PINATA_SECRET_API_KEY")
    /\ pc' = "L7"
    /\ UNCHANGED <<environ, manifest, present, PINATA_API_KEY, VERSION,
                   manifestOpened, pending, files, handles, out, posts, r,
                   runNo, builds>>

\* line 6
ReadSecretKey ==
    /\ pc = "L6"
    /\ IF "PINATA_SECRET_API_KEY" \in DOMAIN environ
       THEN /\ PINATA_SECRET_API_KEY' = environ["PINATA_SECRET_API_KEY"]
            /\ trace' = Append(trace, "env:PINATA_SECRET_API_KEY")
            /\ pc' = "L7"
       ELSE /\ pc' = "raised"
            /\ UNCHANGED <<PINATA_SECRET_API_KEY, trace>>
    /\ UNCHANGED <<environ, manifest, present, PINATA_API_KEY, VERSION,
                   manifestOpened, pending, files, handles, out, posts, r,
                   runNo, builds>>

\* faulty variant: .get("version"), a manifest without the field gives None
ReadVersionGet ==
    /\ pc = "L7"
    /\ manifestOpened' = (manifest.kind # "missing")
    /\ IF manifest.kind \in {"ok", "noversion"}
       THEN /\ VERSION' = (IF manifest.kind = "ok" THEN manifest.version
                           ELSE [type |-> "null", val |-> ""])
            /\ trace' = Append(trace, "manifest")
            /\ pc' = "L9"
       ELSE /\ pc' = "raised"
            /\ UNCHANGED <<VERSION, trace>>
    /\ UNCHANGED <<environ, manifest, present, PINATA_API_KEY,
                   PINATA_SECRET_API_KEY, pending, files, handles, out, posts,
                   r, runNo, builds>>

\* line 7: open, json.load, subscript
ReadVersion ==
    /\ pc = "L7"
    /\ manifestOpened' = (manifest.kind # "missing")
    /\ IF manifest.kind = "ok"
       THEN /\ VERSION' = manifest.version
            /\ trace' = Append(trace, "manifest")
            /\ pc' = "L9"
       ELSE /\ pc' = "raised"
            /\ UNCHANGED <<VERSION, trace>>
    /\ UNCHANGED <<environ, manifest, present, PINATA_API_KEY,
                   PINATA_SECRET_API_KEY, pending, files, handles, out, posts,
                   r, runNo, builds>>

\* faulty variant: a missing artifact is created empty instead of raising
OpenArtifactCreate ==
    /\ pc = "L9"
    /\ LET k == Len(pending) + 1 IN
       /\ handles' = handles \cup {Src[k]}
       /\ trace' = Append(trace, "open:" \o Src[k])
       /\ IF k = 4
          THEN /\ files' = Append(pending, UploadItem(VERSION, k))
               /\ pending' = <<>>
               /\ pc' = "L16"
          ELSE /\ pending' = Append(pending, UploadItem(VERSION, k))
               /\ UNCHANGED <<files, pc>>
    /\ UNCHANGED <<environ, manifest, present, PINATA_API_KEY,
                   PINATA_SECRET_API_KEY, VERSION, manifestOpened, out, posts,
                   r, runNo, builds>>

\* lines 9-14: the next tuple of the list display; the list is bound to
\* `files` once the fourth tuple is built.  When an open() raises, the file
\* objects already built are dropped with the half-built list: a
\* reference-counting runtime closes them at once, another leaves them open.
OpenArtifact ==
    /\ pc = "L9"
    /\ LET k == Len(pending) + 1 IN
       IF Src[k] \in present
       THEN /\ handles' = handles \cup {Src[k]}
            /\ trace' = Append(trace, "open:" \o Src[k])
            /\ IF k = 4
               THEN /\ files' = Append(pending, UploadItem(VERSION, k))
                    /\ pending' = <<>>
                    /\ pc' = "L16"
               ELSE /\ pending' = Append(pending, UploadItem(VERSION, k))
                    /\ UNCHANGED <<files, pc>>
       ELSE /\ pc' = "raised"
            /\ pending' = <<>>
            /\ handles' \in {handles, {}}
            /\ UNCHANGED <<files, trace>>
    /\ UNCHANGED <<environ, manifest, present, PINATA_API_KEY,
                   PINATA_SECRET_API_KEY, VERSION, manifestOpened, out, posts,
                   r, runNo, builds>>

\* faulty variant: the pre-upload line is not printed before the request
PrintUploadingSkipped ==
    /\ pc = "L16"
    /\ pc' = "L17"
    /\ UNCHANGED <<environ, manifest, present, PINATA_API_KEY,
                   PINATA_SECRET_API_KEY, VERSION, manifestOpened, pending,
                   files, handles, out, posts, r, trace, runNo, builds>>

\* line 16
PrintUploading ==
    /\ pc = "L16"
    /\ out' = Append(out, UploadingLine(VERSION, files))
    /\ trace' = Append(trace, "print:uploading")
    /\ pc' = "L17"
    /\ UNCHANGED <<environ, manifest, present, PINATA_API_KEY,
                   PINATA_SECRET_API_KEY, VERSION, manifestOpened, pending,
                   files, handles, posts, r, runNo, builds>>

\* faulty variant: a failed request is sent again
PostRetry ==
    /\ pc = "L17"
    /\ posts' = Append(posts,
                  [url     |-> Endpoint,
                   headers |-> [pinata_api_key |-> PINATA_API_KEY,
                                pinata_secret_api_key |-> PINATA_SECRET_API_KEY],
                   files   |-> files])
    /\ trace' = Append(trace, "post")
    /\ \/ \E resp \in Responses :
             /\ r' = resp
             /\ pc' = IF resp.status = 200 THEN "L26" ELSE "L17"
       \/ r' = r /\ pc' = "L17"
    /\ UNCHANGED <<environ, manifest, present, PINATA_API_KEY,
                   PINATA_SECRET_API_KEY, VERSION, manifestOpened, pending,
                   files, handles, out, runNo, builds>>

\* lines 17-24: one blocking call; it returns a response or raises
Post ==
    /\ pc = "L17"
    /\ posts' = Append(posts,
                  [url     |-> Endpoint,
                   headers |-> [pinata_api_key |-> PINATA_API_KEY,
                                pinata_secret_api_key |-> PINATA_SECRET_API_KEY],
                   files   |-> files])
    /\ trace' = Append(trace, "post")
    /\ \/ \E resp \in Responses : r' = resp /\ pc' = "L26"
       \/ r' = r /\ pc' = "raised"
    /\ UNCHANGED <<environ, manifest, present, PINATA_API_KEY,
                   PINATA_SECRET_API_KEY, VERSION, manifestOpened, pending,
                   files, handles, out, runNo, builds>>

\* lines 26-29
PrintOutcome ==
    /\ pc = "L26"
    /\ out' = Append(out, OutcomeLine(r.status))
    /\ trace' = Append(trace, "print:outcome")
    /\ pc' = "L31"
    /\ UNCHANGED <<environ, manifest, present, PINATA_API_KEY,
                   PINATA_SECRET_API_KEY, VERSION, manifestOpened, pending,
                   files, handles, posts, r, runNo, builds>>

\* line 31: r.json() is evaluated first and raises on a body that is not JSON
PrintBody ==
    /\ pc = "L31"
    /\ LET parsed == JsonLoads(r.body) IN
       IF parsed.err
       THEN /\ pc' = "raised"
            /\ UNCHANGED <<out, trace>>
       ELSE /\ out' = Append(out, PyRepr(parsed.obj))
            /\ trace' = Append(trace, "print:body")
            /\ pc' = "done"
    /\ UNCHANGED <<environ, manifest, present, PINATA_API_KEY,
                   PINATA_SECRET_API_KEY, VERSION, manifestOpened, pending,
                   files, handles, posts, r, runNo, builds>>

\* the script is invoked again, in a fresh process, on whatever the
\* environment and the working directory then hold
Rerun ==
    /\ pc \in {"done", "raised"}
    /\ runNo < MaxRuns
    /\ runNo' = runNo + 1
    /\ builds' = IF files = <<>> THEN builds
                 ELSE builds \cup
                      {[version |-> VERSION,
                        key     |-> PINATA_API_KEY,
                        ok      |-> (r.status = 200),
                        parts   |-> PartsOf(files)]}
    /\ environ' \in Environs
    /\ manifest' \in Manifests
    /\ present' \in Dists
    /\ pc' = "L5"
    /\ PINATA_API_KEY' = ""
    /\ PINATA_SECRET_API_KEY' = ""
    /\ VERSION' = Unset
    /\ manifestOpened' = FALSE
    /\ pending' = <<>>
    /\ files' = <<>>
    /\ handles' = {}
    /\ out' = <<>>
    /\ posts' = <<>>
    /\ r' = NoResponse
    /\ trace' = <<>>

Next ==
    \/ ReadApiKey
    \/ ReadSecretKey
    \/ ReadVersion
    \/ OpenArtifact
    \/ PrintUploading
    \/ Post
    \/ PrintOutcome
    \/ PrintBody
    \/ Rerun

Spec == Init /\ [][Next]_vars

\* the interpreter runs the next statement whenever there is one
Statement ==
    \/ ReadApiKey
    \/ ReadSecretKey
    \/ ReadVersion
    \/ OpenArtifact
    \/ PrintUploading
    \/ Post
    \/ PrintOutcome
    \/ PrintBody

FairSpec == Spec /\ WF_vars(Statement)

TypeOK ==
    /\ environ \in Environs
    /\ manifest \in Manifests
    /\ present \subseteq ArtifactPaths
    /\ pc \in {"L5", "L6", "L7", "L9", "L16", "L17", "L26", "L31", "done",
               "raised"}
    /\ handles \subseteq ArtifactPaths
    /\ Len(posts) <= 1
    /\ runNo \in 1..MaxRuns

----------------------------------------------------------------------------
(* Properties *)

CredentialMissing == DOMAIN environ # EnvNames

ManifestBad == manifest.kind # "ok"

ResponseReceived == r # NoResponse

Terminated == pc \in {"done", "raised"}

\* C1: whenever a request has been handed to requests.post and the manifest's
\* version is the string V, the request carries exactly four parts, all in
\* the field `file`, named V/cactus.js, V/cactus.js.map, V/style.css and
\* V/style.css.map in that order, with content-types text/javascript,
\* application/json, text/css and application/json.
C1_FourPartsNamedByVersion ==
    \A i \in 1..Len(posts) :
        manifest.version.type = "str" =>
            LET V == manifest.version.val
                p == posts[i].files
            IN  /\ Len(p) = 4
                /\ \A k \in 1..4 : p[k].field = "file"
                /\ p[1].name = V \o "/cactus.js"
                /\ p[2].name = V \o "/cactus.js.map"
                /\ p[3].name = V \o "/style.css"
                /\ p[4].name = V \o "/style.css.map"
                /\ p[1].ctype = "text/javascript"
                /\ p[2].ctype = "application/json"
                /\ p[3].ctype = "text/css"
                /\ p[4].ctype = "application/json"

C1_Witness ==
    /\ Len(posts) = 1
    /\ manifest.version = [type |-> "str", val |-> "1.2.3"]
    /\ posts[1].files[4].name = "1.2.3/style.css.map"

\* C2: while a credential is absent from the environment, no request has been
\* issued, the manifest has not been opened, no artifact is open, nothing has
\* been printed and the run is at line 5, at line 6 or has raised; and such a
\* run does end by raising.
C2_MissingCredentialFatal ==
    /\ [](CredentialMissing =>
            /\ posts = <<>>
            /\ ~manifestOpened
            /\ handles = {}
            /\ out = <<>>
            /\ pc \in {"L5", "L6", "raised"})
    /\ [](CredentialMissing => <>(pc = "raised"))

C2_Witness ==
    /\ DOMAIN environ = {"PINATA_API_KEY"}
    /\ PINATA_API_KEY = environ["PINATA_API_KEY"]
    /\ pc = "raised"

\* C3: while the manifest is missing, is not JSON, is not an object or has no
\* `version`, no artifact is open, no tuple of the request has been built, no
\* request has been issued, and the run never gets past line 7.
C3_BadManifestFailsBeforeOpen ==
    ManifestBad =>
        /\ handles = {}
        /\ pending = <<>>
        /\ files = <<>>
        /\ posts = <<>>
        /\ pc \in {"L5", "L6", "L7", "raised"}

C3_Witness ==
    /\ manifest.kind = "noversion"
    /\ DOMAIN environ = EnvNames
    /\ present = ArtifactPaths
    /\ manifestOpened
    /\ pc = "raised"

\* C4: once a run that received a response has ended, it has printed exactly
\* one outcome line after the pre-upload line, that line is "Success!" exactly
\* when the status is 200, and for status 200 the body has been printed after
\* it.
C4_OutcomeLineAndBody ==
    (ResponseReceived /\ Terminated) =>
        /\ Len(out) >= 2
        /\ (out[2] = "Success!") <=> (r.status = 200)
        /\ Cardinality({i \in 1..Len(out) :
                          out[i] = "Success!"
                          \/ out[i] = "Error: " \o ToString(r.status)}) = 1
        /\ r.status = 200 => Len(out) = 3

\* C5: a run whose response has a status S other than 200 ends normally,
\* having printed "Error: S" and then the body, whatever the body is.
C5_ErrorStatusReportedWithoutRaising ==
    (ResponseReceived /\ r.status # 200 /\ Terminated) =>
        /\ pc = "done"
        /\ Len(out) = 3
        /\ out[2] = "Error: " \o ToString(r.status)

\* C6: a run issues at most one request, whatever the answer was, and the
\* artifacts submitted so far are either none or all four.
C6_SinglePostAllOrNone ==
    /\ Len(posts) <= 1
    /\ LET sent == UNION {{posts[i].files[k].src :
                              k \in 1..Len(posts[i].files)} :
                          i \in 1..Len(posts)}
       IN  sent = {} \/ sent = ArtifactPaths

C6_Witness ==
    /\ Len(posts) = 1
    /\ Terminated
    /\ r.status = 500

\* C7: a run that built its parts from the same manifest version as an
\* earlier run built the same sequence of part names and content-types,
\* whatever the credentials of the two runs and whatever the earlier run's
\* request returned.
C7_SameInputsSameParts ==
    \A b \in builds :
        (files # <<>> /\ b.version = VERSION) => PartsOf(files) = b.parts

C7_Witness ==
    /\ files # <<>>
    /\ \E b \in builds :
          /\ b.version = VERSION
          /\ b.key # PINATA_API_KEY
          /\ ~b.ok
    /\ r.status = 200

\* C8: while one of the four artifacts cannot be opened, no request has been
\* issued, nothing has been printed, and the run never reaches line 16.
C8_MissingArtifactFailsSilently ==
    present # ArtifactPaths =>
        /\ posts = <<>>
        /\ out = <<>>
        /\ files = <<>>
        /\ pc \in {"L5", "L6", "L7", "L9", "raised"}

C8_Witness ==
    /\ present = ArtifactPaths \ {"dist/style.js.map"}
    /\ Len(trace) = 6
    /\ pc = "raised"

StepOrder ==
    <<"env:PINATA_API_KEY", "env:PINATA_SECRET_API_KEY", "manifest",
      "open:dist/cactus.js", "open:dist/cactus.js.map", "open:dist/style.css",
      "open:dist/style.js.map", "print:uploading", "post", "print:outcome",
      "print:body">>

\* C9: the side effects of a run are always an initial part of the fixed
\* order: API key, secret key, manifest, the four opens, the pre-upload line,
\* the POST, the outcome line, the body.  The pre-upload line states the
\* version and the count 4 and is printed before the POST; the outcome line
\* and the body are printed only after a response has been received.
C9_FixedStepOrder ==
    /\ Len(trace) <= Len(StepOrder)
    /\ \A i \in 1..Len(trace) : trace[i] = StepOrder[i]
    /\ posts # <<>> => Len(out) >= 1
    /\ (Len(out) >= 1 /\ manifest.version.type = "str") =>
          out[1] = "Uploading " \o manifest.version.val \o ": 4 files..."
    /\ Len(out) >= 2 => ResponseReceived
    /\ Len(out) >= 1 => handles = ArtifactPaths

C9_Witness ==
    /\ pc = "done"
    /\ trace = StepOrder
    /\ Len(out) = 3

\* C10: in the final state of a run that received a response none of the
\* four artifact handles is open, and in a run that failed while opening an
\* artifact none of the handles opened before it is open.
C10_HandlesReleased ==
    /\ (ResponseReceived /\ Terminated) => handles = {}
    /\ (pc = "raised" /\ ~CredentialMissing /\ ~ManifestBad
          /\ present # ArtifactPaths) => handles = {}

====
